---- MODULE Spec2Model ----
(***************************************************************************)
(* Model of the SatAsAService scripts: the Earth Engine authentication     *)
(* and re-authentication paths (auth.py), the thumbnail polling loop       *)
(* (gif_gen.py), the point/region reductions (point_extraction.py), the    *)
(* time-series loop (time_series_extraction.py) and the console menu       *)
(* (main.py).                                                              *)
(*                                                                         *)
(* One program entry point runs per behaviour: `entry` records which one   *)
(* was called.  The remote service (ee.*, requests.get) is the             *)
(* environment: every remote call either succeeds or raises, chosen        *)
(* nondeterministically.  time.time() is the discrete clock `now`, which   *)
(* only time.sleep advances.                                               *)
(***************************************************************************)
EXTENDS Integers, Sequences, FiniteSets, TLC

\* ------------------------------------------------------------------------
\* Bounds of the model
\* ------------------------------------------------------------------------
MaxRetriesArg == 3
MaxDelayArg == 2
MaxTimeout == 3
MaxCheckInterval == 2
MaxCounted == 3
MaxDays == 1
MaxElapsed == 1
MaxUrls == 2
MaxWidth == 2
MaxHeight == 3
MaxValue == 3
MaxBreakpoints == 3

\* ------------------------------------------------------------------------
\* Program constants
\* ------------------------------------------------------------------------
DEFAULT_MAX_RETRIES == 5
DEFAULT_DELAY == 5
HTTP_OK == 200
HTTP_UNAUTHORIZED == 401

\* The status codes requests.get may answer with: 200, 401, and 500 as the
\* representative of every other code.
StatusCodes == {HTTP_OK, HTTP_UNAUTHORIZED, 500}

VARIABLES
    entry,              \* the entry point under execution ("none" before the call)
    now,                \* time.time()
    \* reconnect_gee
    rg_pc,              \* "idle" | "loop" | "returned"
    rg_max_retries,     \* argument max_retries
    rg_delay,           \* argument delay
    rg_i,               \* loop variable i of range(max_retries)
    rg_result,          \* "unset" | "True" | "False" | "raised"
    rg_log,             \* outcomes of the Authenticate+Initialize attempts of this call
    rg_sleeps,          \* number of time.sleep(delay) calls of this call
    \* download_thumbnail
    dt_pc,              \* "idle" | "get" | "reconnect" | "returned"
    dt_timeout,         \* argument timeout
    dt_check_interval,  \* argument check_interval
    dt_start_time,      \* start_time
    dt_reconnect_done,  \* reconnect_done
    dt_status,          \* response.status_code of the last request (0: none yet)
    dt_exc,             \* the last request raised
    dt_result,          \* "unset" | "response" | "None" | "raised"
    dt_requests,        \* number of requests.get calls of this call (up to MaxCounted)
    dt_reconnects,      \* number of reconnect_gee calls of this call (up to MaxCounted)
    \* authenticate_earth_engine
    ae_pc,              \* "idle" | "try" | "except" | "returned" | "raised"
    ae_log,             \* outcomes of the Authenticate+Initialize attempts of this call
    \* main
    m_pc,               \* "idle" | "import_config" | "main_auth" | "menu" | "stage" |
                        \* "exited" | "crashed" (an exception reached the top level)
    m_choice,           \* the last string main_menu() returned ("" before the first)
    m_msg,              \* what main()/run_all() itself printed for the last choice
    m_running,          \* the pipeline function being executed ("none" between them)
    m_caller,           \* who called it: "menu" | "run_all"
    m_failure,          \* why the process crashed: "none" | "remote" | "local" | "TypeError"
    ra_done,            \* the stages the running run_all() has completed, in order
    data_processed,     \* main's flag
    series_extracted,   \* main's flag
    collection,         \* main's four stored collections: "None" | "ee"
    era5_coll,
    image_collection,
    era5_collection,
    h_processed,        \* history: process_satellite_data has completed in this session
    h_extracted,        \* history: extract_time_series_data has completed since the
                        \* last completion of process_satellite_data
    \* extract_point_values / extract_region_values, called on their own
    pe_result,          \* what the last call gave back: [kind, dict]
    pe_requests,        \* the remote requests the last call made, in order
    pe_reported,        \* what the last call printed
    pe_failed,          \* a remote request of the last call raised
    pe_answers,         \* how the remote service answered the requests of the last call
    \* extract_time_series
    ts_pc,              \* "idle" | "while" | "locations" | "join" | "returned" | "raised" |
                        \* "saved" (the caller has passed the rows to save_to_csv)
    ts_call,            \* which extraction of extract_time_series_data runs: 0 (none), 1, 2
    ts_dataset,         \* argument dataset_name
    ts_bands,           \* argument bands
    ts_locations,       \* argument locations
    ts_time_interval,   \* argument time_interval
    ts_start,           \* start, as a day number
    ts_loc,             \* position of the `for lat, lon in locations` loop
    ts_results,         \* results
    ts_last,            \* values and region_values of the last pass of the location loop
                        \* in the running interval
    ts_processed,       \* processed_intervals
    ts_total,           \* total_intervals
    ts_progress,        \* progress, in whole percent
    ts_num_images,      \* num_images
    ts_query,           \* outcome of the last size().getInfo(): "none" | "ok" | "raise"
    stop_timer,         \* stop_timer
    elapsed_time,       \* elapsed_time, in timer updates (up to MaxElapsed)
    tt_pc,              \* the timer thread: "unstarted" | "running" | "ended"
    tt_line,            \* the last progress line the timer thread wrote to the console
    threads_alive,      \* the number of timer threads that are started and not ended
    csv_file,           \* the CSV file the running extraction is saved to
    \* create_gif_from_urls
    gif_pc,             \* "idle" | "getInfo" | "for" | "returned" | "raised"
    gif_urls,           \* argument urls
    gif_dates,          \* argument dates
    gif_i,              \* the number of (url, date_text) pairs the for loop has taken
    gif_images,         \* images
    gif_counter,        \* counter
    gif_printed,        \* the URLs of the "Final error downloading the frame" lines
    gif_responses,      \* history: what download_thumbnail returned for each pair
    gif_file,           \* the GIF file output_filename
    \* create_colorbar
    cb_width,           \* argument width
    cb_height,          \* argument height
    cb_ramp,            \* argument ramp
    cb_pixels           \* the gradient area of colorbar: cb_pixels[col][y]

rg_vars == <<rg_pc, rg_max_retries, rg_delay, rg_i, rg_result, rg_log, rg_sleeps>>
dt_vars == <<dt_pc, dt_timeout, dt_check_interval, dt_start_time, dt_reconnect_done,
             dt_status, dt_exc, dt_result, dt_requests, dt_reconnects>>
ae_vars == <<ae_pc, ae_log>>
m_flags == <<data_processed, series_extracted, collection, era5_coll,
             image_collection, era5_collection>>
m_vars == <<m_pc, m_choice, m_msg, m_running, m_caller, m_failure, ra_done, m_flags,
            h_processed, h_extracted>>
pe_vars == <<pe_result, pe_requests, pe_reported, pe_failed, pe_answers>>
ts_args == <<ts_dataset, ts_bands, ts_locations, ts_time_interval, ts_total>>
ts_loop == <<ts_start, ts_loc, ts_results, ts_last, ts_processed, ts_progress,
             ts_num_images, ts_query>>
tt_vars == <<elapsed_time, tt_pc, tt_line, threads_alive>>
ts_vars == <<ts_pc, ts_call, ts_args, ts_loop, stop_timer, tt_vars, csv_file>>
gif_loop == <<gif_i, gif_images, gif_counter, gif_printed, gif_responses>>
cb_vars == <<cb_width, cb_height, cb_ramp, cb_pixels>>
gif_vars == <<gif_pc, gif_urls, gif_dates, gif_loop, gif_file, cb_vars>>
vars == <<entry, now, rg_vars, dt_vars, ae_vars, m_vars, pe_vars, ts_vars, gif_vars>>

\* A bookkeeping counter of the model counts up to MaxCounted and stays there.
Counted(n) == IF n < MaxCounted THEN n + 1 ELSE MaxCounted

\* ------------------------------------------------------------------------
\* auth.py: reconnect_gee
\* ------------------------------------------------------------------------

\* `for i in range(max_retries)` has no further value of i.
RangeExhausted_OffByOne(i, n) == i > n
RangeExhausted(i, n) == i >= n

\* The clock after time.sleep(d).
AfterSleep_Doubled(t, d) == t + 2 * d
AfterSleep(t, d) == t + d

\* The call reconnect_gee(max_retries=n, delay=d): the state on entry.
RG_Enter(n, d) ==
    /\ rg_pc' = "loop"
    /\ rg_max_retries' = n
    /\ rg_delay' = d
    /\ rg_i' = 0
    /\ rg_result' = "unset"
    /\ rg_log' = <<>>
    /\ rg_sleeps' = 0

\* ee.Authenticate(); ee.Initialize(...) succeed: return True.
RG_AttemptSucceeds ==
    /\ rg_pc = "loop"
    /\ ~RangeExhausted(rg_i, rg_max_retries)
    /\ rg_log' = Append(rg_log, "ok")
    /\ rg_result' = "True"
    /\ rg_pc' = "returned"
    /\ UNCHANGED <<entry, now, rg_max_retries, rg_delay, rg_i, rg_sleeps, dt_vars, ae_vars, m_vars, pe_vars, ts_vars, gif_vars>>

\* ee.Authenticate() or ee.Initialize(...) raises: the handler prints,
\* sleeps `delay` and the loop goes on.
RG_AttemptFails_Uncaught ==
    /\ rg_pc = "loop"
    /\ ~RangeExhausted(rg_i, rg_max_retries)
    /\ rg_log' = Append(rg_log, "raise")
    /\ rg_result' = "raised"
    /\ rg_pc' = "returned"
    /\ UNCHANGED <<entry, now, rg_max_retries, rg_delay, rg_i, rg_sleeps, dt_vars, ae_vars, m_vars, pe_vars, ts_vars, gif_vars>>
RG_AttemptFails ==
    /\ rg_pc = "loop"
    /\ ~RangeExhausted(rg_i, rg_max_retries)
    /\ rg_log' = Append(rg_log, "raise")
    /\ now' = AfterSleep(now, rg_delay)
    /\ rg_sleeps' = rg_sleeps + 1
    /\ rg_i' = rg_i + 1
    /\ UNCHANGED <<entry, rg_pc, rg_max_retries, rg_delay, rg_result, dt_vars, ae_vars, m_vars, pe_vars, ts_vars, gif_vars>>

\* The loop ran out of attempts: return False.
RG_LoopEnds ==
    /\ rg_pc = "loop"
    /\ RangeExhausted(rg_i, rg_max_retries)
    /\ rg_result' = "False"
    /\ rg_pc' = "returned"
    /\ UNCHANGED <<entry, now, rg_max_retries, rg_delay, rg_i, rg_log, rg_sleeps, dt_vars, ae_vars, m_vars, pe_vars, ts_vars, gif_vars>>

\* ------------------------------------------------------------------------
\* gif_gen.py: download_thumbnail
\* ------------------------------------------------------------------------

\* `time.time() - start_time > timeout`
TimedOut_AtDeadline(t, start, timeout) == t - start >= timeout
TimedOut(t, start, timeout) == t - start > timeout

\* `response.status_code == 401 and not reconnect_done`
NeedsReconnect_AnyFailure(status, done) == status # HTTP_OK /\ ~done
NeedsReconnect(status, done) == status = HTTP_UNAUTHORIZED /\ ~done

\* The clock after the loop's time.sleep(check_interval).
AfterCheckIntervalSleep_NoSleep(t, ci) == t
AfterCheckIntervalSleep(t, ci) == AfterSleep(t, ci)

\* reconnect_done after `if reconnect_gee(): reconnect_done = True`.
ReconnectDone_Forgets(done, result) == FALSE
ReconnectDone(done, result) == done \/ result = "True"

\* The tail of a failed iteration: return None past the deadline, else
\* sleep check_interval and go round the loop again.
DT_CheckTimeout ==
    IF TimedOut(now, dt_start_time, dt_timeout)
    THEN /\ dt_result' = "None"
         /\ dt_pc' = "returned"
         /\ now' = now
    ELSE /\ now' = AfterCheckIntervalSleep(now, dt_check_interval)
         /\ dt_pc' = "get"
         /\ dt_result' = dt_result

\* requests.get(url) answers with a status code.
DT_GetResponds(status) ==
    /\ dt_pc = "get"
    /\ dt_status' = status
    /\ dt_exc' = FALSE
    /\ dt_requests' = Counted(dt_requests)
    /\ IF status = HTTP_OK
       THEN /\ dt_result' = "response"
            /\ dt_pc' = "returned"
            /\ UNCHANGED <<now, rg_vars, dt_reconnects, gif_vars>>
       ELSE IF NeedsReconnect(status, dt_reconnect_done)
       THEN /\ RG_Enter(DEFAULT_MAX_RETRIES, DEFAULT_DELAY)
            /\ dt_pc' = "reconnect"
            /\ dt_reconnects' = Counted(dt_reconnects)
            /\ UNCHANGED <<now, dt_result, gif_vars>>
       ELSE /\ DT_CheckTimeout
            /\ UNCHANGED <<rg_vars, dt_reconnects, gif_vars>>
    /\ UNCHANGED <<entry, dt_timeout, dt_check_interval, dt_start_time, dt_reconnect_done, ae_vars, m_vars, pe_vars, ts_vars, gif_vars>>

\* reconnect_gee() returns into the 401 branch; an exception out of it
\* would land in the except clause.  Both end in the same deadline check.
DT_ReconnectReturns ==
    /\ dt_pc = "reconnect"
    /\ rg_pc = "returned"
    /\ dt_reconnect_done' = ReconnectDone(dt_reconnect_done, rg_result)
    /\ dt_exc' = (rg_result = "raised")
    /\ DT_CheckTimeout
    /\ rg_pc' = "idle"
    /\ UNCHANGED <<entry, rg_max_retries, rg_delay, rg_i, rg_result, rg_log, rg_sleeps,
                   dt_timeout, dt_check_interval, dt_start_time, dt_status,
                   dt_requests, dt_reconnects, ae_vars, m_vars, pe_vars, ts_vars, gif_vars>>

\* requests.get(url) raises: the except clause prints and checks the deadline.
DT_GetRaises ==
    /\ dt_pc = "get"
    /\ dt_exc' = TRUE
    /\ dt_requests' = Counted(dt_requests)
    /\ DT_CheckTimeout
    /\ UNCHANGED <<entry, rg_vars, dt_timeout, dt_check_interval, dt_start_time,
                   dt_reconnect_done, dt_status, dt_reconnects, ae_vars, m_vars, pe_vars, ts_vars, gif_vars>>

\* ------------------------------------------------------------------------
\* auth.py: authenticate_earth_engine
\* ------------------------------------------------------------------------

\* The call authenticate_earth_engine(): the state on entry.
AE_Enter ==
    /\ ae_pc' = "try"
    /\ ae_log' = <<>>

\* The try block: ee.Authenticate(); ee.Initialize(...) succeed.
AE_TrySucceeds ==
    /\ ae_pc = "try"
    /\ ae_log' = Append(ae_log, "ok")
    /\ ae_pc' = "returned"
    /\ UNCHANGED <<entry, now, rg_vars, dt_vars, pe_vars, ts_vars, m_vars, gif_vars>>

\* The try block raises: control enters the except clause.
AE_TryFails_GivesUp ==
    /\ ae_pc = "try"
    /\ ae_log' = Append(ae_log, "raise")
    /\ ae_pc' = "returned"
    /\ UNCHANGED <<entry, now, rg_vars, dt_vars, pe_vars, ts_vars, m_vars, gif_vars>>
AE_TryFails ==
    /\ ae_pc = "try"
    /\ ae_log' = Append(ae_log, "raise")
    /\ ae_pc' = "except"
    /\ UNCHANGED <<entry, now, rg_vars, dt_vars, pe_vars, ts_vars, m_vars, gif_vars>>

\* The except clause: the second ee.Authenticate(); ee.Initialize(...) succeed.
AE_RetrySucceeds ==
    /\ ae_pc = "except"
    /\ ae_log' = Append(ae_log, "ok")
    /\ ae_pc' = "returned"
    /\ UNCHANGED <<entry, now, rg_vars, dt_vars, pe_vars, ts_vars, m_vars, gif_vars>>

\* The except clause: the second attempt raises.  Nothing encloses it, so
\* the exception leaves the function.
AE_RetryFails_Swallowed ==
    /\ ae_pc = "except"
    /\ ae_log' = Append(ae_log, "raise")
    /\ ae_pc' = "returned"
    /\ UNCHANGED <<entry, now, rg_vars, dt_vars, pe_vars, ts_vars, m_vars, gif_vars>>
AE_RetryFails ==
    /\ ae_pc = "except"
    /\ ae_log' = Append(ae_log, "raise")
    /\ ae_pc' = "raised"
    /\ UNCHANGED <<entry, now, rg_vars, dt_vars, pe_vars, ts_vars, m_vars, gif_vars>>

\* ------------------------------------------------------------------------
\* main.py: the pipeline functions, run_all and the menu loop of main
\* ------------------------------------------------------------------------

\* The order in which run_all calls the pipeline functions.
RunAllStages ==
    << "process_satellite_data", "extract_time_series_data",
       "generate_time_series_plots", "create_interactive_map",
       "generate_gifs", "merge_gifs_menu" >>

\* def merge_gifs(gif_paths, output_path, duration=0.1)
MergeGifsParams == << "gif_paths", "output_path", "duration" >>

\* merge_gifs("..._pe_(1).gif", "..._pe_(2).gif", "gif_unido.gif", duration=10)
MergeGifsMenuCall ==
    [ positional |-> << "laguna_gallocanta_evolucion_pe_(1).gif",
                        "laguna_gallocanta_evolucion_pe_(2).gif",
                        "gif_unido.gif" >>,
      keywords   |-> [ duration |-> 10 ] ]

\* Python's argument binding: the k-th positional argument goes to the k-th
\* parameter; a call raises TypeError when it passes more positional
\* arguments than there are parameters, or a keyword argument for a
\* parameter a positional argument has already filled.
CallRaisesTypeError(params, call) ==
    \/ Len(call.positional) > Len(params)
    \/ \E k \in 1..Len(call.positional) :
           k <= Len(params) /\ params[k] \in DOMAIN call.keywords

\* The parameters the positional arguments of a call are bound to: the
\* k-th argument to the k-th parameter.
BindPositional(params, call) ==
    [ p \in { params[k] : k \in 1..Len(call.positional) } |->
        call.positional[CHOOSE k \in 1..Len(call.positional) : params[k] = p] ]

\* How a pipeline function can fail.  Those that talk to Earth Engine fail
\* on a remote call; generate_time_series_plots reads local CSV files;
\* merge_gifs_menu fails on its own call of merge_gifs when that call does
\* not bind, and on the local GIF files otherwise.  None of them catches
\* the failure, and neither do run_all and main.
StageFailures(stage) ==
    CASE stage = "generate_time_series_plots" -> {"local"}
      [] stage = "merge_gifs_menu" ->
            IF CallRaisesTypeError(MergeGifsParams, MergeGifsMenuCall)
            THEN {"TypeError"} ELSE {"local"}
      [] OTHER -> {"remote"}

\* Whether a pipeline function can return at all.
StageCanReturn(stage) ==
    stage = "merge_gifs_menu" => ~CallRaisesTypeError(MergeGifsParams, MergeGifsMenuCall)

\* The guards of options 2, 3 and 4.
Option2Allowed == data_processed
Option3Allowed_DataProcessed == data_processed
Option3Allowed == series_extracted
Option4Allowed == data_processed

\* series_extracted after option 1: `series_extracted = False`.
SeriesExtractedAfterOption1_Kept == series_extracted
SeriesExtractedAfterOption1 == FALSE

\* A pipeline function is called.
StartStage(stage, caller) ==
    /\ m_pc' = "stage"
    /\ m_running' = stage
    /\ m_caller' = caller

\* An option that starts a pipeline function straight away.
M_Start(choice, stage, caller) ==
    /\ m_pc = "menu"
    /\ m_choice' = choice
    /\ m_msg' = "none"
    /\ StartStage(stage, caller)
    /\ ra_done' = <<>>
    /\ UNCHANGED <<entry, now, rg_vars, dt_vars, pe_vars, ts_vars, ae_vars, m_failure, m_flags,
                   h_processed, h_extracted, gif_vars>>

\* An option that only prints and goes back to the menu.
M_Print(choice, msg) ==
    /\ m_pc = "menu"
    /\ m_choice' = choice
    /\ m_msg' = msg
    /\ UNCHANGED <<entry, now, rg_vars, dt_vars, pe_vars, ts_vars, ae_vars, m_pc, m_running, m_caller,
                   m_failure, ra_done, m_flags, h_processed, h_extracted, gif_vars>>

M_Option1 == M_Start("1", "process_satellite_data", "menu")

M_Option2 ==
    IF Option2Allowed
    THEN M_Start("2", "extract_time_series_data", "menu")
    ELSE M_Print("2", "run_option_1_first")

M_Option3 ==
    IF Option3Allowed
    THEN M_Start("3", "generate_time_series_plots", "menu")
    ELSE M_Print("3", "run_option_2_first")

M_Option4 ==
    IF Option4Allowed
    THEN M_Start("4", "create_interactive_map", "menu")
    ELSE M_Print("4", "run_option_1_first")

M_Option5 == M_Start("5", "generate_gifs", "menu")

M_Option6 == M_Start("6", "merge_gifs_menu", "menu")

\* run_all() prints its banner and calls the first pipeline function.
M_Option7 == M_Start("7", RunAllStages[1], "run_all")

\* "0": print "Exiting...", leave the loop, print the completion message.
M_Option0 ==
    /\ m_pc = "menu"
    /\ m_choice' = "0"
    /\ m_msg' = "completed"
    /\ m_pc' = "exited"
    /\ UNCHANGED <<entry, now, rg_vars, dt_vars, pe_vars, ts_vars, ae_vars, m_running, m_caller,
                   m_failure, ra_done, m_flags, h_processed, h_extracted, gif_vars>>

\* Any other input.
M_Invalid == \E c \in {"8", "x"} : M_Print(c, "invalid_option")

\* The running pipeline function returns to the menu loop: option 1 stores
\* the four collections and sets the flags, option 2 sets series_extracted.
M_StageReturnsToMenu ==
    /\ m_pc = "stage"
    /\ m_caller = "menu"
    /\ StageCanReturn(m_running)
    /\ m_pc' = "menu"
    /\ m_running' = "none"
    /\ IF m_running = "process_satellite_data"
       THEN /\ collection' = "ee"
            /\ era5_coll' = "ee"
            /\ image_collection' = "ee"
            /\ era5_collection' = "ee"
            /\ data_processed' = TRUE
            /\ series_extracted' = SeriesExtractedAfterOption1
       ELSE IF m_running = "extract_time_series_data"
       THEN /\ series_extracted' = TRUE
            /\ UNCHANGED <<collection, era5_coll, image_collection, era5_collection,
                           data_processed, gif_vars>>
       ELSE UNCHANGED m_flags
    /\ h_processed' = (h_processed \/ m_running = "process_satellite_data")
    /\ h_extracted' = IF m_running = "process_satellite_data" THEN FALSE
                      ELSE IF m_running = "extract_time_series_data" THEN TRUE
                      ELSE h_extracted
    /\ UNCHANGED <<entry, now, rg_vars, dt_vars, pe_vars, ts_vars, ae_vars, m_choice, m_msg, m_caller,
                   m_failure, ra_done, gif_vars>>

\* The running pipeline function returns to run_all, which calls the next
\* one; after the last it prints its completion message and returns to the
\* menu loop.  run_all keeps the collections in its own local variables.
M_StageReturnsToRunAll_SetsFlags ==
    /\ m_pc = "stage"
    /\ m_caller = "run_all"
    /\ StageCanReturn(m_running)
    /\ ra_done' = Append(ra_done, m_running)
    /\ IF Len(ra_done) + 1 < Len(RunAllStages)
       THEN /\ StartStage(RunAllStages[Len(ra_done) + 2], "run_all")
            /\ m_msg' = m_msg
       ELSE /\ m_pc' = "menu"
            /\ m_running' = "none"
            /\ m_caller' = m_caller
            /\ m_msg' = "run_all_completed"
    /\ h_processed' = (h_processed \/ m_running = "process_satellite_data")
    /\ h_extracted' = IF m_running = "process_satellite_data" THEN FALSE
                      ELSE IF m_running = "extract_time_series_data" THEN TRUE
                      ELSE h_extracted
    /\ data_processed' = (data_processed \/ m_running = "process_satellite_data")
    /\ UNCHANGED <<entry, now, rg_vars, dt_vars, pe_vars, ts_vars, ae_vars, m_choice, m_failure,
                   series_extracted, collection, era5_coll, image_collection, era5_collection, gif_vars>>
M_StageReturnsToRunAll ==
    /\ m_pc = "stage"
    /\ m_caller = "run_all"
    /\ StageCanReturn(m_running)
    /\ ra_done' = Append(ra_done, m_running)
    /\ IF Len(ra_done) + 1 < Len(RunAllStages)
       THEN /\ StartStage(RunAllStages[Len(ra_done) + 2], "run_all")
            /\ m_msg' = m_msg
       ELSE /\ m_pc' = "menu"
            /\ m_running' = "none"
            /\ m_caller' = m_caller
            /\ m_msg' = "run_all_completed"
    /\ h_processed' = (h_processed \/ m_running = "process_satellite_data")
    /\ h_extracted' = IF m_running = "process_satellite_data" THEN FALSE
                      ELSE IF m_running = "extract_time_series_data" THEN TRUE
                      ELSE h_extracted
    /\ UNCHANGED <<entry, now, rg_vars, dt_vars, pe_vars, ts_vars, ae_vars, m_choice, m_failure, m_flags, gif_vars>>

\* The running pipeline function raises: the exception passes through
\* run_all and main and ends the process.
M_StageRaises ==
    /\ m_pc = "stage"
    /\ \E kind \in StageFailures(m_running) : m_failure' = kind
    /\ m_pc' = "crashed"
    /\ UNCHANGED <<entry, now, rg_vars, dt_vars, pe_vars, ts_vars, ae_vars, m_choice, m_msg, m_running,
                   m_caller, ra_done, m_flags, h_processed, h_extracted, gif_vars>>

\* `from config import ...` has run config's module-level
\* authenticate_earth_engine(); main() starts and calls it again.
M_ConfigImported ==
    /\ m_pc = "import_config"
    /\ ae_pc = "returned"
    /\ m_pc' = "main_auth"
    /\ AE_Enter
    /\ UNCHANGED <<entry, now, rg_vars, dt_vars, pe_vars, ts_vars, m_choice, m_msg, m_running, m_caller,
                   m_failure, ra_done, m_flags, h_processed, h_extracted, gif_vars>>

\* main() is past authentication: it initialises its variables and shows
\* the menu.
M_Authenticated ==
    /\ m_pc = "main_auth"
    /\ ae_pc = "returned"
    /\ m_pc' = "menu"
    /\ m_msg' = "authenticated"
    /\ collection' = "None"
    /\ era5_coll' = "None"
    /\ image_collection' = "None"
    /\ era5_collection' = "None"
    /\ data_processed' = FALSE
    /\ series_extracted' = FALSE
    /\ UNCHANGED <<entry, now, rg_vars, dt_vars, pe_vars, ts_vars, ae_vars, m_choice, m_running, m_caller,
                   m_failure, ra_done, h_processed, h_extracted, gif_vars>>

\* authenticate_earth_engine() raised, at import time or in main().
M_AuthRaised ==
    /\ m_pc \in {"import_config", "main_auth"}
    /\ ae_pc = "raised"
    /\ m_pc' = "crashed"
    /\ m_failure' = "remote"
    /\ UNCHANGED <<entry, now, rg_vars, dt_vars, pe_vars, ts_vars, ae_vars, m_choice, m_msg, m_running,
                   m_caller, ra_done, m_flags, h_processed, h_extracted, gif_vars>>

\* ------------------------------------------------------------------------
\* point_extraction.py: extract_point_values, extract_region_values
\* ------------------------------------------------------------------------

\* A Python dict of band values is a function from band names; every
\* value is "v".  What a function gives back is [kind, dict] with kind
\* "dict" (a non-empty dict), "None", or "raised" (an exception left it).
EmptyDict == [b \in {} |-> "v"]
None == [kind |-> "None", dict |-> EmptyDict]
Raised == [kind |-> "raised", dict |-> EmptyDict]
Dict(d) == [kind |-> "dict", dict |-> d]

\* What reduceRegion(...).getInfo() answers with for the modelled image:
\* no data, or a value for each band of the image.
ImageDict == [b \in {"NDVI", "B8"} |-> "v"]
RemoteDicts == {EmptyDict, ImageDict}

\* The answers of the remote service to the requests of one
\* extract_point_values call: region.contains(point, 1).getInfo(), then
\* point.getInfo() (asked only when the point is outside) or
\* image.reduceRegion(...).getInfo() (asked only when it is inside).  The
\* answer to a request that is never made is left at its default.
PointAnswers ==
    { a \in [ contains_raises : BOOLEAN, contains : BOOLEAN, info_raises : BOOLEAN,
              reduce_raises : BOOLEAN, reduce : RemoteDicts ] :
        /\ a.contains_raises => ~a.contains
        /\ (a.contains_raises \/ a.contains) => ~a.info_raises
        /\ (a.contains_raises \/ ~a.contains \/ a.reduce_raises) =>
               (a.reduce = EmptyDict)
        /\ (a.contains_raises \/ ~a.contains) => ~a.reduce_raises }

\* ... and of one extract_region_values call: center_point.getInfo(), then
\* image.reduceRegion(...).getInfo().
RegionAnswers ==
    { a \in [ info_raises : BOOLEAN, reduce_raises : BOOLEAN, reduce : RemoteDicts ] :
        /\ a.info_raises => ~a.reduce_raises
        /\ (a.info_raises \/ a.reduce_raises) => (a.reduce = EmptyDict) }

\* The remote requests extract_point_values makes, in order.
PointRequests(a) ==
    IF a.contains_raises THEN << "contains" >>
    ELSE IF ~a.contains THEN << "contains", "point_info" >>
    ELSE << "contains", "reduceRegion" >>

\* What extract_point_values prints.
PointReported(a) ==
    IF a.contains_raises THEN "error"
    ELSE IF ~a.contains THEN (IF a.info_raises THEN "error" ELSE "outside_bounds")
    ELSE IF a.reduce_raises THEN "error"
    ELSE IF a.reduce = EmptyDict THEN "no_data"
    ELSE "nothing"

\* What the except clause of extract_point_values gives back.
PointOnException_Propagates == Raised
PointOnException == None

\* `return values if values else None`: an empty dict is falsy.
ValuesOrNone_AsIs(values) == Dict(values)
ValuesOrNone(values) == IF values # EmptyDict THEN Dict(values) ELSE None

\* What extract_point_values returns.
PointValues(a) ==
    IF a.contains_raises THEN PointOnException
    ELSE IF ~a.contains THEN (IF a.info_raises THEN PointOnException ELSE None)
    ELSE IF a.reduce_raises THEN PointOnException
    ELSE ValuesOrNone(a.reduce)

\* The remote requests extract_region_values makes, in order.
RegionRequests(a) ==
    IF a.info_raises THEN << "point_info" >> ELSE << "point_info", "reduceRegion" >>

\* What extract_region_values prints.
RegionReported(a) ==
    IF a.info_raises \/ a.reduce_raises THEN "error" ELSE "nothing"

\* What extract_region_values returns.
RegionValues(a) ==
    IF a.info_raises \/ a.reduce_raises THEN None
    ELSE ValuesOrNone(a.reduce)

\* A remote request of the call raised.
PointFailed(a) ==
    \/ a.contains_raises
    \/ ~a.contains /\ a.info_raises
    \/ a.contains /\ a.reduce_raises
RegionFailed(a) == a.info_raises \/ a.reduce_raises

\* ------------------------------------------------------------------------
\* time_series_extraction.py: extract_time_series, save_to_csv
\* ------------------------------------------------------------------------

\* END_DATE as a day number; dates are day numbers from 0.
EndDay == MaxDays

\* dict.get(key, None)
Get(d, key) == IF key \in DOMAIN d THEN d[key] ELSE "None"

\* The keys of the row built for one location, in insertion order: Date,
\* Latitude, Longitude, then for every requested band the band and, for
\* Sentinel-2, "<band>_region".
RegionColumn(band) == band \o "_region"
BandKeys_NoRegion(bands, dataset) == bands
RECURSIVE BandKeys(_, _)
BandKeys(bands, dataset) ==
    IF bands = <<>> THEN <<>>
    ELSE (IF dataset = "Sentinel-2"
          THEN << Head(bands), RegionColumn(Head(bands)) >>
          ELSE << Head(bands) >>) \o BandKeys(Tail(bands), dataset)
RowKeys(bands, dataset) == << "Date", "Latitude", "Longitude" >> \o BandKeys(bands, dataset)

\* The row built for one location: its keys in order, Date, Latitude,
\* Longitude and a cell for every other key.
Row(date, location, bands, dataset, values, region_values) ==
    [ keys      |-> RowKeys(bands, dataset),
      Date      |-> date,
      Latitude  |-> location[1],
      Longitude |-> location[2],
      cells     |->
         [ c \in { bands[k] : k \in 1..Len(bands) }
                 \cup (IF dataset = "Sentinel-2"
                       THEN { RegionColumn(bands[k]) : k \in 1..Len(bands) }
                       ELSE {})
           |-> IF c \in { bands[k] : k \in 1..Len(bands) }
               THEN Get(values.dict, c)
               ELSE LET band == CHOOSE b \in { bands[k] : k \in 1..Len(bands) } :
                                    RegionColumn(b) = c
                    IN  IF region_values.kind = "dict"
                        THEN Get(region_values.dict, band)
                        ELSE "None" ] ]

\* `while start <= end`
InLoop(start, end) == start <= end

\* total_intervals = (end - start).days // time_interval + 1
TotalIntervals(start, end, interval) == (end - start) \div interval + 1

\* progress = (processed_intervals / total_intervals) * 100, to whole percent
Progress(processed, total) == (processed * 100) \div total

\* One pass of the while loop up to the location loop: the collection is
\* filtered and reduced (lazily), and size().getInfo() answers with n.
TS_SizeQuery(n) ==
    /\ ts_pc = "while"
    /\ InLoop(ts_start, EndDay)
    /\ ts_num_images' = n
    /\ ts_query' = "ok"
    /\ ts_loc' = 1
    /\ ts_pc' = "locations"
    /\ UNCHANGED <<entry, now, rg_vars, dt_vars, ae_vars, m_vars, pe_vars,
                   ts_call, ts_args, ts_start, ts_results, ts_last, ts_processed,
                   ts_progress, stop_timer, tt_vars, csv_file, gif_vars>>

\* size().getInfo() raises.  No try encloses it: the exception leaves
\* extract_time_series, with stop_timer still False.
TS_SizeQueryRaises ==
    /\ ts_pc = "while"
    /\ InLoop(ts_start, EndDay)
    /\ ts_query' = "raise"
    /\ ts_pc' = "raised"
    /\ UNCHANGED <<entry, now, rg_vars, dt_vars, ae_vars, m_vars, pe_vars,
                   ts_call, ts_args, ts_start, ts_loc, ts_results, ts_last, ts_processed,
                   ts_progress, ts_num_images, stop_timer, tt_vars, csv_file, gif_vars>>

\* One pass of the location loop: both extractions, and the row if the
\* point values are non-empty.
TS_Location(pa, ra) ==
    /\ ts_pc = "locations"
    /\ ts_loc <= Len(ts_locations)
    /\ LET values == PointValues(pa)
           region_values == RegionValues(ra)
       IN  ts_results' =
               IF values.kind = "dict"
               THEN Append(ts_results,
                           Row(ts_start, ts_locations[ts_loc], ts_bands, ts_dataset,
                               values, region_values))
               ELSE ts_results
    /\ ts_last' = [values |-> PointValues(pa), region_values |-> RegionValues(ra)]
    /\ ts_loc' = ts_loc + 1
    /\ UNCHANGED <<entry, now, rg_vars, dt_vars, ae_vars, m_vars, pe_vars,
                   ts_pc, ts_call, ts_args, ts_start, ts_processed, ts_progress,
                   ts_num_images, ts_query, stop_timer, tt_vars, csv_file, gif_vars>>

\* The end of one pass of the while loop: the progress is updated and
\* start moves on by time_interval days.
TS_EndInterval ==
    /\ ts_pc = "locations"
    /\ ts_loc > Len(ts_locations)
    /\ ts_processed' = ts_processed + 1
    /\ ts_progress' = Progress(ts_processed', ts_total)
    /\ ts_start' = ts_start + ts_time_interval
    /\ ts_last' = [values |-> None, region_values |-> None]
    /\ ts_pc' = "while"
    /\ UNCHANGED <<entry, now, rg_vars, dt_vars, ae_vars, m_vars, pe_vars,
                   ts_call, ts_args, ts_loc, ts_results, ts_num_images,
                   ts_query, stop_timer, tt_vars, csv_file, gif_vars>>

\* The while loop ends: stop_timer = True, then timer_thread.join().
TS_LoopEnds_NoStop ==
    /\ ts_pc = "while"
    /\ ~InLoop(ts_start, EndDay)
    /\ ts_pc' = "join"
    /\ UNCHANGED <<entry, now, rg_vars, dt_vars, ae_vars, m_vars, pe_vars,
                   ts_call, ts_args, ts_loop, stop_timer, tt_vars, csv_file, gif_vars>>
TS_LoopEnds ==
    /\ ts_pc = "while"
    /\ ~InLoop(ts_start, EndDay)
    /\ stop_timer' = TRUE
    /\ ts_pc' = "join"
    /\ UNCHANGED <<entry, now, rg_vars, dt_vars, ae_vars, m_vars, pe_vars,
                   ts_call, ts_args, ts_loop, tt_vars, csv_file, gif_vars>>

\* join() returns once the timer thread has ended; the function prints the
\* total time and returns results.  `file` is the state in which the caller
\* will find the CSV file it saves the rows to.
TS_Join(file) ==
    /\ ts_pc = "join"
    /\ tt_pc = "ended"
    /\ ts_pc' = "returned"
    /\ csv_file' = file
    /\ UNCHANGED <<entry, now, rg_vars, dt_vars, ae_vars, m_vars, pe_vars,
                   ts_call, ts_args, ts_loop, stop_timer, tt_vars, gif_vars>>

\* The progress line update_timer writes: progress, num_images and the
\* elapsed time as it reads them.
ProgressLine_Stale(progress, num_images, elapsed) ==
    [ progress |-> 0, num_images |-> 0, elapsed |-> elapsed ]
ProgressLine(progress, num_images, elapsed) ==
    [ progress |-> progress, num_images |-> num_images, elapsed |-> elapsed ]

\* update_timer, one pass of `while not stop_timer`: elapsed_time is
\* written, the progress line printed, and the thread sleeps a second.
TT_Update ==
    /\ tt_pc = "running"
    /\ ~stop_timer
    /\ elapsed_time' = IF elapsed_time < MaxElapsed THEN elapsed_time + 1 ELSE MaxElapsed
    /\ tt_line' = << ProgressLine(ts_progress, ts_num_images, elapsed_time') >>
    /\ UNCHANGED <<entry, now, rg_vars, dt_vars, ae_vars, m_vars, pe_vars,
                   ts_pc, ts_call, ts_args, ts_loop, stop_timer, tt_pc, threads_alive,
                   csv_file, gif_vars>>

\* update_timer finds stop_timer set and returns: the thread ends.
TT_Exit ==
    /\ tt_pc = "running"
    /\ stop_timer
    /\ tt_pc' = "ended"
    /\ threads_alive' = threads_alive - 1
    /\ UNCHANGED <<entry, now, rg_vars, dt_vars, ae_vars, m_vars, pe_vars,
                   ts_pc, ts_call, ts_args, ts_loop, stop_timer, elapsed_time, tt_line,
                   csv_file, gif_vars>>

\* A file that does not exist, and the content of one left by an earlier run.
NoFile == [ exists |-> FALSE, header |-> <<>>, lines |-> <<>> ]
OldFile == [ exists |-> TRUE, header |-> << "Date" >>, lines |-> << << "old" >> >> ]

\* csv's text for a cell: None is written as the empty string.
CsvCell(v) == IF v = "None" THEN "" ELSE v

\* keys = data[0].keys()
Fieldnames_VariablesOnly(data) == SubSeq(data[1].keys, 4, Len(data[1].keys))
Fieldnames(data) == data[1].keys

\* DictWriter.writerow(row) raises ValueError for a row with a key that is
\* not a fieldname.
WriteRowRaises(row, fieldnames) ==
    \E k \in 1..Len(row.keys) :
        row.keys[k] \notin { fieldnames[j] : j \in 1..Len(fieldnames) }

\* The line DictWriter.writerow(row) writes: the row's value for every
\* fieldname, in the order of the fieldnames; "" for a key the row lacks.
CsvLine(row, fieldnames) ==
    [ k \in 1..Len(fieldnames) |->
        IF fieldnames[k] = "Date" THEN row.Date
        ELSE IF fieldnames[k] = "Latitude" THEN row.Latitude
        ELSE IF fieldnames[k] = "Longitude" THEN row.Longitude
        ELSE IF fieldnames[k] \in DOMAIN row.cells THEN CsvCell(row.cells[fieldnames[k]])
        ELSE "" ]

\* The rows save_to_csv writes before it ends: all of them, or those before
\* the first row writerow raises for.
WrittenRows(data, fieldnames) ==
    IF \E i \in 1..Len(data) : WriteRowRaises(data[i], fieldnames)
    THEN SubSeq(data, 1, (CHOOSE i \in 1..Len(data) :
                              /\ WriteRowRaises(data[i], fieldnames)
                              /\ \A j \in 1..(i - 1) : ~WriteRowRaises(data[j], fieldnames)) - 1)
    ELSE data

\* The file after save_to_csv(data, filename): untouched for empty data;
\* otherwise opened with "w", the header written, then a line per row.
SaveToCsv(data, file) ==
    IF data = <<>> THEN file
    ELSE [ exists |-> TRUE,
           header |-> Fieldnames(data),
           lines  |-> [ i \in 1..Len(WrittenRows(data, Fieldnames(data))) |->
                          CsvLine(data[i], Fieldnames(data)) ] ]

\* extract_time_series_data passes the rows of the extraction that has
\* returned to save_to_csv.
TS_SaveToCsv ==
    /\ ts_pc = "returned"
    /\ csv_file' = SaveToCsv(ts_results, csv_file)
    /\ ts_pc' = IF ts_results # <<>> /\
                   Len(WrittenRows(ts_results, Fieldnames(ts_results))) < Len(ts_results)
                THEN "raised" ELSE "saved"
    /\ UNCHANGED <<entry, now, rg_vars, dt_vars, ae_vars, m_vars, pe_vars,
                   ts_call, ts_args, ts_loop, stop_timer, tt_vars, gif_vars>>

\* ------------------------------------------------------------------------
\* The callers
\* ------------------------------------------------------------------------

Call_reconnect_gee(n, d) ==
    /\ entry = "none"
    /\ entry' = "reconnect_gee"
    /\ RG_Enter(n, d)
    /\ UNCHANGED <<now, dt_vars, ae_vars, m_vars, pe_vars, ts_vars, gif_vars>>

Call_download_thumbnail_DeadlineFirst(timeout, ci) ==
    /\ entry = "none"
    /\ entry' = "download_thumbnail"
    /\ dt_pc' = IF TimedOut(now, now, timeout) THEN "returned" ELSE "get"
    /\ dt_result' = IF TimedOut(now, now, timeout) THEN "None" ELSE dt_result
    /\ dt_timeout' = timeout
    /\ dt_check_interval' = ci
    /\ dt_start_time' = now
    /\ dt_reconnect_done' = FALSE
    /\ UNCHANGED <<now, rg_vars, dt_status, dt_exc, dt_requests, dt_reconnects, ae_vars, m_vars, pe_vars, ts_vars, gif_vars>>
Call_download_thumbnail(timeout, ci) ==
    /\ entry = "none"
    /\ entry' = "download_thumbnail"
    /\ dt_pc' = "get"
    /\ dt_timeout' = timeout
    /\ dt_check_interval' = ci
    /\ dt_start_time' = now
    /\ dt_reconnect_done' = FALSE
    /\ UNCHANGED <<now, rg_vars, dt_status, dt_exc, dt_result, dt_requests, dt_reconnects, ae_vars, m_vars, pe_vars, ts_vars, gif_vars>>

\* The time a reconnect_gee() call takes when all its attempts fail, and the
\* timeouts download_thumbnail is called with: negative, zero, short ones,
\* and one that outlasts a failed reconnect_gee() call and the sleep after it.
ReconnectCycle == DEFAULT_MAX_RETRIES * DEFAULT_DELAY
Timeouts == (-1..MaxTimeout) \cup {ReconnectCycle + MaxCheckInterval}

\* The argument values the calls of extract_time_series are drawn from.
Locations == << <<41, 0>>, <<42, 1>> >>
LocationLists == { SubSeq(Locations, 1, k) : k \in 0..Len(Locations) }
BandLists == { << "NDVI", "NDMI" >> }
Datasets == { "Sentinel-2", "ERA5-Land" }
TimeIntervals == { 1, 2 }

\* extract_point_values(image, point) called on its own.
Call_extract_point_values(a) ==
    /\ entry = "none"
    /\ entry' = "extract_point_values"
    /\ pe_result' = PointValues(a)
    /\ pe_requests' = PointRequests(a)
    /\ pe_reported' = PointReported(a)
    /\ pe_failed' = PointFailed(a)
    /\ pe_answers' = a
    /\ UNCHANGED <<now, rg_vars, dt_vars, ae_vars, m_vars, ts_vars, gif_vars>>

\* extract_region_values(image, center_point) called on its own.
Call_extract_region_values(a) ==
    /\ entry = "none"
    /\ entry' = "extract_region_values"
    /\ pe_result' = RegionValues(a)
    /\ pe_requests' = RegionRequests(a)
    /\ pe_reported' = RegionReported(a)
    /\ pe_failed' = RegionFailed(a)
    /\ pe_answers' = a
    /\ UNCHANGED <<now, rg_vars, dt_vars, ae_vars, m_vars, ts_vars, gif_vars>>

\* extract_time_series(...): the local variables are set up and the timer
\* thread is started.  The CSV file of this extraction has not been looked
\* at yet.
Call_extract_time_series(dataset, bands, locations, start, interval) ==
    /\ ts_pc' = "while"
    /\ ts_dataset' = dataset
    /\ ts_bands' = bands
    /\ ts_locations' = locations
    /\ ts_time_interval' = interval
    /\ ts_total' = TotalIntervals(start, EndDay, interval)
    /\ ts_start' = start
    /\ ts_loc' = 0
    /\ ts_results' = <<>>
    /\ ts_last' = [values |-> None, region_values |-> None]
    /\ ts_processed' = 0
    /\ ts_progress' = 0
    /\ ts_num_images' = 0
    /\ ts_query' = "none"
    /\ stop_timer' = FALSE
    /\ elapsed_time' = 0
    /\ tt_pc' = "running"
    /\ tt_line' = <<>>
    /\ threads_alive' = threads_alive + 1
    /\ csv_file' = NoFile

\* extract_time_series_data(image_collection, era5_collection): the
\* Sentinel-2 extraction is called first.
Call_extract_time_series_data(bands, locations, start, interval) ==
    /\ entry = "none"
    /\ entry' = "extract_time_series_data"
    /\ ts_call' = 1
    /\ Call_extract_time_series("Sentinel-2", bands, locations, start, interval)
    /\ UNCHANGED <<now, rg_vars, dt_vars, ae_vars, m_vars, pe_vars, gif_vars>>

\* The Sentinel-2 rows are saved: the ERA5-Land extraction is called, for
\* the same locations, with its own start date and its own CSV file.
TSD_SecondExtraction(start) ==
    /\ ts_pc = "saved"
    /\ ts_call = 1
    /\ ts_call' = 2
    /\ Call_extract_time_series("ERA5-Land", ts_bands, ts_locations, start,
                                ts_time_interval)
    /\ UNCHANGED <<entry, now, rg_vars, dt_vars, ae_vars, m_vars, pe_vars, gif_vars>>

\* python main.py: the imports run config's module level.
Call_main ==
    /\ entry = "none"
    /\ entry' = "main"
    /\ m_pc' = "import_config"
    /\ AE_Enter
    /\ UNCHANGED <<now, rg_vars, dt_vars, pe_vars, ts_vars, m_choice, m_msg, m_running, m_caller,
                   m_failure, ra_done, m_flags, h_processed, h_extracted, gif_vars>>

\* ------------------------------------------------------------------------
\* gif_gen.create_colorbar: the gradient
\* ------------------------------------------------------------------------
\* A colour string is the sequence of its characters, "#" first; a ramp is a
\* sequence of <<value, colour string>> pairs.  Values, heights and widths
\* are integers, and the fractions the code computes in floating point are
\* kept here as exact quotients numerator/denominator.
HexDigits == << "0", "1", "2", "3", "4", "5", "6", "7", "8", "9",
                "a", "b", "c", "d", "e", "f" >>
HexDigitsUpper == << "0", "1", "2", "3", "4", "5", "6", "7", "8", "9",
                     "A", "B", "C", "D", "E", "F" >>

\* int(ch, 16) of one character.
HexValue(ch) ==
    CHOOSE k \in 0..15 : HexDigits[k + 1] = ch \/ HexDigitsUpper[k + 1] = ch

\* int(hexcolor[i:i+2], 16); the character at Python index i is hexcolor[i + 1].
HexPair(hexcolor, i) == 16 * HexValue(hexcolor[i + 1]) + HexValue(hexcolor[i + 2])

\* tuple(int(hexcolor[i:i+2], 16) for i in (1, 3, 5))
Rgb(hexcolor) == << HexPair(hexcolor, 1), HexPair(hexcolor, 3), HexPair(hexcolor, 5) >>

\* ramp_rgb: the (rgb, val) pairs.
ramp_rgb(ramp) == [ i \in 1..Len(ramp) |-> [ rgb |-> Rgb(ramp[i][2]), val |-> ramp[i][1] ] ]

\* int(n / d) for d > 0: the quotient without its fractional part.
Trunc(n, d) == IF n >= 0 THEN n \div d ELSE -((-n) \div d)

\* A variant of interpolate_color that runs from c2 to c1.
interpolate_color_Reversed(c1, c2, tn, td) ==
    [ k \in 1..3 |-> Trunc(c2[k] * td + (c1[k] - c2[k]) * tn, td) ]

\* interpolate_color(c1, c2, t) for t = tn / td.
interpolate_color(c1, c2, tn, td) ==
    [ k \in 1..3 |-> Trunc(c1[k] * td + (c2[k] - c1[k]) * tn, td) ]

\* current_val of a row, as a numerator over height - 1:
\* min_val + (row / float(height - 1)) * val_range.
CurrentValNum(height, ramp, row) ==
    LET min_val == ramp[1][1]
        max_val == ramp[Len(ramp)][1]
        val_range == max_val - min_val
    IN  min_val * (height - 1) + row * val_range

\* The segments i (from 0, as in the code) with val_i <= current_val <= val_ip1.
Enclosing(height, ramp, row) ==
    { i \in 0..(Len(ramp) - 2) :
        /\ ramp[i + 1][1] * (height - 1) <= CurrentValNum(height, ramp, row)
        /\ CurrentValNum(height, ramp, row) <= ramp[i + 2][1] * (height - 1) }

\* color_row of one pass of `for row in range(height)`.
ColorRow(height, ramp, row) ==
    LET rgbs == ramp_rgb(ramp)
        cur == CurrentValNum(height, ramp, row)
        den == height - 1
        hits == Enclosing(height, ramp, row)
    IN  IF hits # {}
        THEN LET i == CHOOSE j \in hits : \A k \in hits : j <= k
                 val_i == rgbs[i + 1].val
                 val_ip1 == rgbs[i + 2].val
             IN  interpolate_color(rgbs[i + 1].rgb, rgbs[i + 2].rgb,
                                   cur - val_i * den, (val_ip1 - val_i) * den)
        ELSE IF cur < rgbs[1].val * den THEN rgbs[1].rgb
        ELSE IF cur > rgbs[Len(ramp)].val * den THEN rgbs[Len(ramp)].rgb
        ELSE << 0, 0, 0 >>

\* The pixels colorbar.putpixel((col, height - 1 - row), color_row) has set
\* when the row loop is over.
Gradient(width, height, ramp) ==
    [ col \in 0..(width - 1) |->
        [ y \in 0..(height - 1) |-> ColorRow(height, ramp, height - 1 - y) ] ]

\* ------------------------------------------------------------------------
\* gif_gen.create_gif_from_urls
\* ------------------------------------------------------------------------
\* The output file before the call.
NoGif == [ exists |-> FALSE, frames |-> <<>> ]

\* The annotated frame made of the image downloaded from url and of date_text.
Frame(url, date_text) == [ image |-> url, date |-> date_text ]

Min(a, b) == IF a <= b THEN a ELSE b

\* len(list(zip(urls, dates)))
ZipLen(urls, dates) == Min(Len(urls), Len(dates))

\* create_gif_from_urls(urls, dates, ...) up to the colorbar legend.
Call_create_gif_from_urls(urls, dates) ==
    /\ entry = "none"
    /\ entry' = "create_gif_from_urls"
    /\ gif_pc' = "getInfo"
    /\ gif_urls' = urls
    /\ gif_dates' = dates
    /\ gif_i' = 0
    /\ gif_images' = <<>>
    /\ gif_counter' = 0
    /\ gif_printed' = <<>>
    /\ gif_responses' = <<>>
    /\ UNCHANGED <<now, rg_vars, dt_vars, ae_vars, m_vars, pe_vars, ts_vars, gif_file, cb_vars>>

\* aoi_info = aoi.getInfo() answers.
GIF_AoiInfo ==
    /\ gif_pc = "getInfo"
    /\ gif_pc' = "for"
    /\ UNCHANGED <<entry, now, rg_vars, dt_vars, ae_vars, m_vars, pe_vars, ts_vars,
                   gif_urls, gif_dates, gif_loop, gif_file, cb_vars>>

\* aoi.getInfo() raises; nothing in the function catches it.
GIF_AoiInfoRaises ==
    /\ gif_pc = "getInfo"
    /\ gif_pc' = "raised"
    /\ UNCHANGED <<entry, now, rg_vars, dt_vars, ae_vars, m_vars, pe_vars, ts_vars,
                   gif_urls, gif_dates, gif_loop, gif_file, cb_vars>>

\* One pass of `for url, date_text in zip(urls, dates)`; response is what
\* download_thumbnail(url, timeout=20) returned.
GIF_Frame(response) ==
    /\ gif_pc = "for"
    /\ gif_i < ZipLen(gif_urls, gif_dates)
    /\ gif_i' = gif_i + 1
    /\ gif_responses' = Append(gif_responses, response)
    /\ IF response # "None"
       THEN /\ gif_images' = Append(gif_images,
                                    Frame(gif_urls[gif_i + 1], gif_dates[gif_i + 1]))
            /\ UNCHANGED gif_printed
       ELSE /\ gif_printed' = Append(gif_printed, gif_urls[gif_i + 1])
            /\ UNCHANGED gif_images
    /\ gif_counter' = gif_counter + 1
    /\ UNCHANGED <<entry, now, rg_vars, dt_vars, ae_vars, m_vars, pe_vars, ts_vars,
                   gif_pc, gif_urls, gif_dates, gif_file, cb_vars>>

\* imageio.mimsave(output_filename, images, duration=duration) after the
\* loop: imageio raises when it is given no image to write.
GIF_Mimsave ==
    /\ gif_pc = "for"
    /\ gif_i = ZipLen(gif_urls, gif_dates)
    /\ IF gif_images = <<>>
       THEN /\ gif_pc' = "raised"
            /\ UNCHANGED gif_file
       ELSE /\ gif_pc' = "returned"
            /\ gif_file' = [ exists |-> TRUE, frames |-> gif_images ]
    /\ UNCHANGED <<entry, now, rg_vars, dt_vars, ae_vars, m_vars, pe_vars, ts_vars,
                   gif_urls, gif_dates, gif_loop, cb_vars>>

\* The argument lists of a call.
RECURSIVE SeqsOver(_, _)
SeqsOver(S, n) ==
    IF n = 0 THEN { <<>> }
    ELSE LET shorter == SeqsOver(S, n - 1)
         IN  shorter \cup { Append(s, x) : s \in { t \in shorter : Len(t) = n - 1 }, x \in S }

UrlLists == SeqsOver({ "url_a", "url_b" }, MaxUrls)
DateLists == { [ k \in 1..n |-> k ] : n \in 0..MaxUrls }

\* The colours and ramps a call of create_colorbar is given: at least two
\* breakpoints with strictly increasing values.
HexColours == { << "#", "8", "0", "0", "0", "0", "0" >>,
                << "#", "f", "f", "f", "f", "0", "0" >>,
                << "#", "0", "0", "0", "0", "F", "F" >> }
Ramps ==
    { r \in SeqsOver((0..MaxValue) \X HexColours, MaxBreakpoints) :
        /\ Len(r) >= 2
        /\ \A i \in 1..(Len(r) - 1) : r[i][1] < r[i + 1][1] }

\* create_colorbar(width, height, ramp) called on its own.
Call_create_colorbar(width, height, ramp) ==
    /\ entry = "none"
    /\ entry' = "create_colorbar"
    /\ cb_width' = width
    /\ cb_height' = height
    /\ cb_ramp' = ramp
    /\ cb_pixels' = Gradient(width, height, ramp)
    /\ UNCHANGED <<now, rg_vars, dt_vars, ae_vars, m_vars, pe_vars, ts_vars,
                   gif_pc, gif_urls, gif_dates, gif_loop, gif_file>>

\* The calls of create_colorbar on its own: any width, a height of at least
\* two, any ramp.
Calls_create_colorbar ==
    /\ entry = "none"
    /\ \E width \in 1..MaxWidth, height \in 2..MaxHeight, ramp \in Ramps :
          Call_create_colorbar(width, height, ramp)

Init ==
    /\ entry = "none"
    /\ now = 0
    /\ rg_pc = "idle"
    /\ rg_max_retries = 0
    /\ rg_delay = 0
    /\ rg_i = 0
    /\ rg_result = "unset"
    /\ rg_log = <<>>
    /\ rg_sleeps = 0
    /\ dt_pc = "idle"
    /\ dt_timeout = 0
    /\ dt_check_interval = 0
    /\ dt_start_time = 0
    /\ dt_reconnect_done = FALSE
    /\ dt_status = 0
    /\ dt_exc = FALSE
    /\ dt_result = "unset"
    /\ dt_requests = 0
    /\ dt_reconnects = 0
    /\ ae_pc = "idle"
    /\ ae_log = <<>>
    /\ m_pc = "idle"
    /\ m_choice = ""
    /\ m_msg = "none"
    /\ m_running = "none"
    /\ m_caller = "menu"
    /\ m_failure = "none"
    /\ ra_done = <<>>
    /\ data_processed = FALSE
    /\ series_extracted = FALSE
    /\ collection = "None"
    /\ era5_coll = "None"
    /\ image_collection = "None"
    /\ era5_collection = "None"
    /\ h_processed = FALSE
    /\ h_extracted = FALSE
    /\ pe_result = None
    /\ pe_requests = <<>>
    /\ pe_reported = "nothing"
    /\ pe_failed = FALSE
    /\ pe_answers = [info_raises |-> FALSE, reduce_raises |-> FALSE, reduce |-> EmptyDict]
    /\ ts_pc = "idle"
    /\ ts_call = 0
    /\ ts_dataset = ""
    /\ ts_bands = <<>>
    /\ ts_locations = <<>>
    /\ ts_time_interval = 0
    /\ ts_start = 0
    /\ ts_loc = 0
    /\ ts_results = <<>>
    /\ ts_last = [values |-> None, region_values |-> None]
    /\ ts_processed = 0
    /\ ts_total = 0
    /\ ts_progress = 0
    /\ ts_num_images = 0
    /\ ts_query = "none"
    /\ stop_timer = FALSE
    /\ elapsed_time = 0
    /\ tt_pc = "unstarted"
    /\ tt_line = <<>>
    /\ threads_alive = 0
    /\ csv_file = NoFile
    /\ gif_pc = "idle"
    /\ gif_urls = <<>>
    /\ gif_dates = <<>>
    /\ gif_i = 0
    /\ gif_images = <<>>
    /\ gif_counter = 0
    /\ gif_printed = <<>>
    /\ gif_responses = <<>>
    /\ gif_file = NoGif
    /\ cb_width = 0
    /\ cb_height = 0
    /\ cb_ramp = <<>>
    /\ cb_pixels = <<>>

Next ==
    \/ \E n \in 0..MaxRetriesArg, d \in 0..MaxDelayArg : Call_reconnect_gee(n, d)
    \/ RG_AttemptSucceeds
    \/ RG_AttemptFails
    \/ RG_LoopEnds
    \/ \E t \in Timeouts, ci \in 1..MaxCheckInterval : Call_download_thumbnail(t, ci)
    \/ \E s \in StatusCodes : DT_GetResponds(s)
    \/ DT_ReconnectReturns
    \/ DT_GetRaises
    \/ Call_main
    \/ AE_TrySucceeds
    \/ AE_TryFails
    \/ AE_RetrySucceeds
    \/ AE_RetryFails
    \/ M_ConfigImported
    \/ M_Authenticated
    \/ M_AuthRaised
    \/ M_Option1
    \/ M_Option2
    \/ M_Option3
    \/ M_Option4
    \/ M_Option5
    \/ M_Option6
    \/ M_Option7
    \/ M_Option0
    \/ M_Invalid
    \/ M_StageReturnsToMenu
    \/ M_StageReturnsToRunAll
    \/ M_StageRaises
    \/ \E a \in PointAnswers : Call_extract_point_values(a)
    \/ \E a \in RegionAnswers : Call_extract_region_values(a)
    \/ \E bands \in BandLists, locations \in LocationLists,
          start \in 0..(MaxDays + 1), interval \in TimeIntervals :
          Call_extract_time_series_data(bands, locations, start, interval)
    \/ \E start \in 0..(MaxDays + 1) : TSD_SecondExtraction(start)
    \/ \E n \in 0..1 : TS_SizeQuery(n)
    \/ TS_SizeQueryRaises
    \/ \E pa \in PointAnswers, ra \in RegionAnswers : TS_Location(pa, ra)
    \/ TS_EndInterval
    \/ TS_LoopEnds
    \/ \E file \in {NoFile, OldFile} : TS_Join(file)
    \/ TS_SaveToCsv
    \/ TT_Update
    \/ TT_Exit
    \/ \E urls \in UrlLists, dates \in DateLists : Call_create_gif_from_urls(urls, dates)
    \/ GIF_AoiInfo
    \/ GIF_AoiInfoRaises
    \/ \E response \in {"Response", "None"} : GIF_Frame(response)
    \/ GIF_Mimsave
    \/ Calls_create_colorbar

Spec == Init /\ [][Next]_vars

\* The interpreter keeps executing the running call: a step that can be
\* taken is eventually taken.
FairSpec == Spec /\ WF_vars(Next)

\* ========================================================================
\* Properties
\* ========================================================================

\* Every attempt recorded in a sequence of outcomes raised.
AllRaised(log) == \A k \in 1..Len(log) : log[k] = "raise"

\* The last request of the running download_thumbnail call failed: it
\* raised, or it answered with a status code other than 200.
LastRequestFailed == dt_exc \/ (dt_status # 0 /\ dt_status # HTTP_OK)

\* C1: reconnect_gee(max_retries=n) makes at most n Authenticate+Initialize
\* attempts; no attempt follows a successful one; it returns True exactly
\* when its last attempt succeeded, and False exactly when all n attempts
\* were made and failed (with n = 0: False without any attempt).
C1_ReconnectBoundedRetry ==
    /\ Len(rg_log) <= rg_max_retries
    /\ \A k \in 1..(Len(rg_log) - 1) : rg_log[k] = "raise"
    /\ (rg_log # <<>> /\ rg_log[Len(rg_log)] = "ok") => rg_result = "True"
    /\ rg_result = "True" => (rg_log # <<>> /\ rg_log[Len(rg_log)] = "ok")
    /\ rg_result = "False" => (Len(rg_log) = rg_max_retries /\ AllRaised(rg_log))
    /\ (rg_result # "unset" /\ AllRaised(rg_log)) =>
           (rg_result = "False" /\ Len(rg_log) = rg_max_retries)

\* A reconnect_gee call that succeeded at its last permitted attempt, after
\* at least one failure.
C1_Witness ==
    /\ entry = "reconnect_gee"
    /\ rg_result = "True"
    /\ Len(rg_log) = rg_max_retries
    /\ Len(rg_log) >= 2

\* C2: every download_thumbnail call returns (a response or None), whatever
\* the requests answer and whatever the nested reconnect_gee calls do.
C2_DownloadTerminates == (entry = "download_thumbnail") ~> (dt_pc = "returned")

\* A download_thumbnail call that returned after several requests and at
\* least one nested reconnect_gee.
C2_Witness ==
    /\ dt_pc = "returned"
    /\ dt_requests >= 3
    /\ dt_reconnects >= 1

\* C3: download_thumbnail returns a response only if it had status 200, and
\* returns None only after a failed request with more than `timeout`
\* elapsed since the call started.
C3_DownloadResultSound ==
    /\ dt_result = "response" => (dt_status = HTTP_OK /\ ~dt_exc)
    /\ dt_result = "None" =>
           (LastRequestFailed /\ now - dt_start_time > dt_timeout)
    /\ dt_pc = "returned" => dt_result \in {"response", "None"}

\* A download_thumbnail call that returned None after polling more than once.
C3_Witness ==
    /\ dt_result = "None"
    /\ dt_requests >= 2
    /\ dt_timeout >= 1

\* C4: within download_thumbnail, reconnect_gee runs only as the direct
\* response to a request answered with status 401: never after another
\* status code, never after a request that raised.
C4_ReconnectOnlyOn401 ==
    (entry = "download_thumbnail" /\ rg_pc # "idle") =>
        (dt_pc = "reconnect" /\ dt_status = HTTP_UNAUTHORIZED /\ ~dt_exc)

\* reconnect_gee running inside download_thumbnail, for a 401 that came
\* after an earlier failed request.
C4_Witness ==
    /\ entry = "download_thumbnail"
    /\ rg_pc = "loop"
    /\ dt_status = HTTP_UNAUTHORIZED
    /\ dt_requests >= 2

\* A sequence holds no element twice.
NoRepeat(seq) == \A i, j \in 1..Len(seq) : seq[i] = seq[j] => i = j

\* reconnect_gee has been called (it is running, or it has returned).
Reconnected == rg_pc # "idle" \/ rg_result # "unset"

\* C5 as stated: at every remote-call site a failure is caught and followed
\* by a re-authentication and a retry of the request, whatever its cause.
C5_ReauthAndRetryEverywhere ==
    /\ (entry = "download_thumbnail" /\ LastRequestFailed /\ dt_pc \in {"get", "returned"})
           => dt_reconnects >= 1
    /\ (entry \in {"extract_point_values", "extract_region_values"} /\ pe_failed)
           => (Reconnected /\ ~NoRepeat(pe_requests))
    /\ ts_query = "raise" => (ts_pc # "raised" /\ Reconnected)

\* C5 as amended: failures are handled per call site.  download_thumbnail
\* re-authenticates only in response to a 401 status while no reconnect has
\* succeeded, and gives up on a failing request only past the timeout;
\* extract_point_values and extract_region_values catch and report the
\* exception and return None, without re-authentication and without
\* repeating a request; an exception of the size query leaves
\* extract_time_series uncaught; no extraction ever re-authenticates.
C5_FailureHandlingBySite ==
    /\ (entry = "download_thumbnail" /\ rg_pc # "idle")
           => (dt_status = HTTP_UNAUTHORIZED /\ ~dt_exc /\ ~dt_reconnect_done)
    /\ (entry = "download_thumbnail" /\ LastRequestFailed /\ dt_pc = "returned")
           => (dt_result = "None" /\ now - dt_start_time > dt_timeout)
    /\ entry \in {"extract_point_values", "extract_region_values", "extract_time_series_data"}
           => ~Reconnected
    /\ pe_failed => (pe_result = None /\ pe_reported = "error" /\ NoRepeat(pe_requests))
    /\ ts_query = "raise" <=> ts_pc = "raised"

\* extract_point_values gave up after its second remote request raised.
C5_Witness ==
    /\ entry = "extract_point_values"
    /\ pe_failed
    /\ Len(pe_requests) = 2
    /\ pe_result = None

\* C6: no exception escapes reconnect_gee or download_thumbnail: when every
\* attempt failed reconnect_gee returns False, and when no request was
\* answered with 200 download_thumbnail returns None.
C6_FailureReturnedNotRaised ==
    /\ rg_result # "raised"
    /\ dt_result # "raised"
    /\ (rg_result # "unset" /\ AllRaised(rg_log)) => rg_result = "False"
    /\ (dt_pc = "returned" /\ LastRequestFailed) => dt_result = "None"

\* download_thumbnail returned None after a 401 whose reconnect_gee failed
\* all its attempts.
C6_Witness ==
    /\ dt_result = "None"
    /\ dt_reconnects >= 1
    /\ ~dt_reconnect_done
    /\ rg_result = "False"

\* C8: every download_thumbnail call returns no later than timeout plus one
\* check_interval after it started.
C8_ReturnsWithinTimeoutPlusInterval ==
    dt_pc = "returned" => now - dt_start_time <= dt_timeout + dt_check_interval

\* C7 as stated: authenticate_earth_engine never raises to its caller.
C7_AuthenticateNeverRaises == ae_pc # "raised"

\* C7 as amended: authenticate_earth_engine raises to its caller exactly
\* when its first attempt and its one retry both failed, and returns
\* normally exactly when its last attempt succeeded; config's import and
\* main() get past authentication only when it returned, and the process
\* ends with the exception when it raised.
C7_AuthenticateRaisesIffRetryFails ==
    /\ ae_pc = "raised" <=> ae_log = << "raise", "raise" >>
    /\ ae_pc = "returned" <=> (ae_log # <<>> /\ ae_log[Len(ae_log)] = "ok")
    /\ m_pc \in {"menu", "stage", "exited"} => ae_pc = "returned"
    /\ (m_pc = "crashed" /\ m_running = "none") => ae_pc = "raised"

\* The process ended by the exception of a failed retry.
C7_Witness ==
    /\ entry = "main"
    /\ m_pc = "crashed"
    /\ ae_pc = "raised"

\* An option of the menu was turned down: main printed `msg`, ran nothing
\* and changed none of its variables.
Rejected(msg) ==
    /\ m_pc' = "menu"
    /\ m_running' = "none"
    /\ m_msg' = msg
    /\ UNCHANGED <<m_flags, h_processed, h_extracted>>

\* C9: extract_time_series_data and create_interactive_map run only after
\* process_satellite_data has completed in the session, and
\* generate_time_series_plots only after extract_time_series_data has
\* completed since the last completion of process_satellite_data; an option
\* 2, 3 or 4 chosen without that prints its error and runs nothing.
C9_MenuPreconditions ==
    /\ [](m_running \in {"extract_time_series_data", "create_interactive_map"}
              => h_processed)
    /\ [](m_running = "generate_time_series_plots" => h_extracted)
    /\ [][(m_pc = "menu" /\ m_choice' \in {"2", "4"} /\ ~h_processed)
              => Rejected("run_option_1_first")]_vars
    /\ [][(m_pc = "menu" /\ m_choice' = "3" /\ ~h_extracted)
              => Rejected("run_option_2_first")]_vars

\* Option 3 accepted: the plots run from the menu.
C9_Witness ==
    /\ m_choice = "3"
    /\ m_caller = "menu"
    /\ m_running = "generate_time_series_plots"

\* C10: run_all calls the six pipeline functions in their fixed order, each
\* after the previous one returned, and it stops short of its completion
\* message only if a call to the remote service (or to a local file)
\* failed.
C10_RunAllCompletes ==
    /\ (m_caller = "run_all" /\ m_pc = "stage") =>
           /\ ra_done = SubSeq(RunAllStages, 1, Len(ra_done))
           /\ m_running = RunAllStages[Len(ra_done) + 1]
    /\ (m_caller = "run_all" /\ m_pc = "crashed") => m_failure \in {"remote", "local"}

\* C11: menu option 6 (merge_gifs_menu) merges the two input GIFs into
\* gif_unido.gif: its call of merge_gifs binds without an error, gif_paths
\* to both input paths and output_path to "gif_unido.gif", and the function
\* does not end in a TypeError.
C11_MergeGifsMenuMerges ==
    (m_running = "merge_gifs_menu" /\ m_pc \in {"stage", "crashed"}) =>
        /\ ~CallRaisesTypeError(MergeGifsParams, MergeGifsMenuCall)
        /\ m_failure # "TypeError"
        /\ BindPositional(MergeGifsParams, MergeGifsMenuCall)["output_path"] = "gif_unido.gif"
        /\ BindPositional(MergeGifsParams, MergeGifsMenuCall)["gif_paths"] =
               << "laguna_gallocanta_evolucion_pe_(1).gif",
                  "laguna_gallocanta_evolucion_pe_(2).gif" >>

\* A step of the timer thread: update_timer writes elapsed_time and its
\* progress line, or returns.
TimerStep ==
    /\ tt_pc = "running"
    /\ (elapsed_time' # elapsed_time \/ tt_line' # tt_line \/ tt_pc' # tt_pc)

\* The main thread of extract_time_series_data is over: the running
\* extraction raised, or the second one has been saved.
MainThreadOver == ts_pc = "raised" \/ (ts_pc = "saved" /\ ts_call = 2)

\* C12: the timer thread of extract_time_series could be removed without
\* changing anything but the console output: no step of the thread changes
\* the rows or the position of the main loop, the join always returns, and
\* the process ends whenever the function without the thread would end it:
\* once the main thread has returned or raised, every timer thread has
\* ended or has been told to stop (nothing can set stop_timer afterwards),
\* and eventually none is alive.
C12_TimerRemovalUnobservable ==
    /\ [][TimerStep => UNCHANGED <<ts_pc, ts_call, ts_args, ts_loop, csv_file>>]_vars
    /\ [](MainThreadOver => (threads_alive = 0 \/ stop_timer))
    /\ (ts_pc = "join") ~> (ts_pc = "returned")
    /\ MainThreadOver ~> (threads_alive = 0)

\* C13 as stated: the timer thread shares nothing with the main loop but
\* one counter and stop_timer.  It writes none of results, start,
\* processed_intervals, progress, num_images and stop_timer, and no other
\* variable the main loop writes reaches it: the progress and num_images
\* of its progress line stay those of the moment the thread was started.
C13_TimerSharesOnlyCounterAndFlag ==
    /\ [][TimerStep => UNCHANGED <<ts_results, ts_start, ts_processed, ts_progress,
                                    ts_num_images, stop_timer>>]_vars
    /\ [](tt_line # <<>> => (tt_line[1].progress = 0 /\ tt_line[1].num_images = 0))

\* C13: the timer thread writes elapsed_time and its console line and
\* nothing else (not results, start, processed_intervals, progress,
\* num_images, stop_timer); it runs a pass only while stop_timer is False;
\* every line it prints shows the progress and num_images the main loop has
\* written last; and the main loop never writes elapsed_time once the
\* thread runs.
C13_TimerSharedState ==
    /\ [][TimerStep => UNCHANGED <<ts_pc, ts_call, ts_args, ts_loop, stop_timer, csv_file>>]_vars
    /\ [][(TimerStep /\ tt_pc' = "running") =>
            /\ ~stop_timer
            /\ tt_line' # <<>>
            /\ tt_line'[1].progress = ts_progress
            /\ tt_line'[1].num_images = ts_num_images
            /\ tt_line'[1].elapsed = elapsed_time']_vars
    /\ [][(tt_pc = "running" /\ ~TimerStep) => UNCHANGED <<elapsed_time, tt_line>>]_vars

\* The timer thread has printed, inside the main loop, a progress and a
\* number of images that the main loop wrote after the thread was started.
C13_Witness ==
    /\ ts_pc \in {"while", "locations"}
    /\ tt_line # <<>>
    /\ tt_line[1].progress > 0
    /\ tt_line[1].num_images = 1
    /\ ts_results # <<>>

\* C14: at most one timer thread is alive at any time, and none outside a
\* call of extract_time_series: a thread is alive only while its call is in
\* the main loop or in join(), so it has ended when the call is left and
\* when the next extraction of extract_time_series_data starts its own.
C14_OneTimerThreadInsideCall ==
    /\ threads_alive <= 1
    /\ threads_alive > 0 => ts_pc \in {"while", "locations", "join"}
    /\ tt_pc = "running" <=> threads_alive = 1

\* The elements of a sequence.
Range(seq) == { seq[k] : k \in 1..Len(seq) }

\* C15: save_to_csv, given the rows extract_time_series returned, leaves
\* the file untouched when there are none; otherwise it returns normally
\* and the file holds the header Date, Latitude, Longitude followed by each
\* variable column once, and then exactly one line per row, in the order
\* of the rows, each with the row's value for every column of the header
\* (None written as the empty string); every row has the header's columns.
C15_CsvMatchesRows ==
    [][(ts_pc = "returned" /\ ts_pc' # "returned") =>
          IF ts_results = <<>>
          THEN ts_pc' = "saved" /\ csv_file' = csv_file
          ELSE LET header == csv_file'.header
                   lines == csv_file'.lines
               IN  /\ ts_pc' = "saved"
                   /\ csv_file'.exists
                   /\ Len(header) >= 3
                   /\ SubSeq(header, 1, 3) = << "Date", "Latitude", "Longitude" >>
                   /\ Range(SubSeq(header, 4, Len(header))) = DOMAIN ts_results[1].cells
                   /\ Cardinality(Range(header)) = Len(header)
                   /\ Len(lines) = Len(ts_results)
                   /\ \A i \in 1..Len(ts_results) :
                          /\ Range(ts_results[i].keys) = Range(header)
                          /\ Len(lines[i]) = Len(header)
                          /\ lines[i][1] = ts_results[i].Date
                          /\ lines[i][2] = ts_results[i].Latitude
                          /\ lines[i][3] = ts_results[i].Longitude
                          /\ \A k \in 4..Len(header) :
                                 lines[i][k] =
                                    IF ts_results[i].cells[header[k]] = "None" THEN ""
                                    ELSE ts_results[i].cells[header[k]]]_vars

\* A Sentinel-2 extraction whose rows were saved: two
\* rows or more, one with region values and one without.
C15_Witness ==
    /\ ts_pc = "saved"
    /\ ts_dataset = "Sentinel-2"
    /\ Len(ts_results) >= 2
    /\ Len(csv_file.lines) = Len(ts_results)
    /\ csv_file.header = << "Date", "Latitude", "Longitude",
                            "NDVI", "NDVI_region", "NDMI", "NDMI_region" >>
    /\ \E i, j \in 1..Len(csv_file.lines) :
           csv_file.lines[i][5] = "" /\ csv_file.lines[j][5] = "v"

\* C16: extract_point_values and extract_region_values never raise.  Each
\* returns None when a remote request raises or the reduction answers with
\* an empty result, extract_point_values also when the point is outside
\* the image bounds (and then without a reduceRegion request); otherwise
\* each returns the non-empty dictionary the reduction answered with.
C16_ExtractionsNeverRaise ==
    /\ entry \in {"extract_point_values", "extract_region_values"} =>
          /\ pe_result.kind \in {"dict", "None"}
          /\ pe_failed => pe_result.kind = "None"
          /\ pe_result.kind = "dict" =>
                 /\ pe_result.dict # EmptyDict
                 /\ pe_result.dict = pe_answers.reduce
                 /\ pe_requests[Len(pe_requests)] = "reduceRegion"
          /\ (~pe_failed /\ "reduceRegion" \in Range(pe_requests)) =>
                 (pe_result.kind = "None" <=> pe_answers.reduce = EmptyDict)
    /\ entry = "extract_point_values" =>
          /\ pe_requests[1] = "contains"
          /\ (~pe_answers.contains_raises /\ ~pe_answers.contains) =>
                 (pe_result.kind = "None" /\ "reduceRegion" \notin Range(pe_requests))
          /\ (~pe_failed /\ pe_answers.contains) => "reduceRegion" \in Range(pe_requests)
    /\ entry = "extract_region_values" =>
          (~pe_answers.info_raises => "reduceRegion" \in Range(pe_requests))

\* An extract_region_values call whose reduction answered with an empty
\* result, without any request raising.
C16_Witness ==
    /\ entry = "extract_region_values"
    /\ ~pe_failed
    /\ pe_requests = << "point_info", "reduceRegion" >>
    /\ pe_answers.reduce = EmptyDict
    /\ pe_result = None

\* C17: authenticate_earth_engine makes at most two Authenticate+Initialize
\* attempts: the second only if the first raised, none after a successful
\* one, and a first attempt that raised is always followed by the second
\* before the function is left.
C17_AuthenticateAtMostTwoAttempts ==
    /\ Len(ae_log) <= 2
    /\ \A k \in 1..(Len(ae_log) - 1) : ae_log[k] = "raise"
    /\ ae_pc \in {"returned", "raised"} =>
           (ae_log # <<>> /\ (ae_log[1] = "raise" => Len(ae_log) = 2))
    /\ ae_pc = "except" <=> ae_log = << "raise" >>
    /\ ae_pc = "try" <=> (entry = "main" /\ ae_log = <<>>)

\* An authenticate_earth_engine call, the one of main(), that returned
\* after its first attempt raised and its second succeeded.
C17_Witness ==
    /\ m_pc = "main_auth"
    /\ ae_pc = "returned"
    /\ ae_log = << "raise", "ok" >>

\* The number of failed attempts in a sequence of outcomes.
FailedAttempts(log) == Cardinality({ k \in 1..Len(log) : log[k] = "raise" })

\* C18: reconnect_gee sleeps exactly once after every failed attempt and
\* never after a successful one, each time for the `delay` it was called
\* with, which never changes during the call: a call in which k attempts
\* have failed has slept k times, k * delay seconds in all.
C18_ReconnectFixedDelay ==
    /\ [](rg_sleeps = FailedAttempts(rg_log))
    /\ [](entry = "reconnect_gee" => now = FailedAttempts(rg_log) * rg_delay)
    /\ [][rg_pc = "loop" => rg_delay' = rg_delay]_vars
    /\ [][(rg_pc = "loop" /\ rg_log' # rg_log) =>
            IF rg_log'[Len(rg_log')] = "raise"
            THEN now' = now + rg_delay /\ rg_sleeps' = rg_sleeps + 1
            ELSE now' = now /\ rg_sleeps' = rg_sleeps]_vars
    /\ [][now' # now /\ rg_pc = "loop" => Len(rg_log') = Len(rg_log) + 1]_vars

\* A reconnect_gee call that succeeded at its third attempt, after two
\* sleeps of two seconds.
C18_Witness ==
    /\ entry = "reconnect_gee"
    /\ rg_result = "True"
    /\ rg_log = << "raise", "raise", "ok" >>
    /\ rg_delay = 2
    /\ rg_sleeps = 2
    /\ now = 4

\* A step in which requests.get of the running download_thumbnail call
\* answers with the given status code.
Answered(status) == dt_pc = "get" /\ ~dt_exc' /\ dt_status' = status

\* C19: within one download_thumbnail call reconnect_gee succeeds at most
\* once.  reconnect_done becomes true exactly when a reconnect_gee call
\* returns True and stays true; from then on reconnect_gee never runs again
\* and a 401 answer goes straight to the deadline check like any failed
\* request.  While reconnect_done is false, every 401 answer starts a new
\* reconnect_gee call with the full default number of attempts.
C19_ReconnectSucceedsAtMostOnce ==
    /\ [](dt_reconnect_done => (rg_pc = "idle" /\ rg_result = "True"))
    /\ [][dt_reconnect_done => dt_reconnect_done']_vars
    /\ [][(dt_pc = "reconnect" /\ dt_pc' # "reconnect") =>
            (dt_reconnect_done' <=> rg_result = "True")]_vars
    /\ [][Answered(HTTP_UNAUTHORIZED) =>
            IF dt_reconnect_done
            THEN /\ UNCHANGED rg_vars
                 /\ dt_reconnects' = dt_reconnects
                 /\ dt_pc' \in {"get", "returned"}
            ELSE /\ dt_pc' = "reconnect"
                 /\ rg_pc' = "loop"
                 /\ rg_i' = 0
                 /\ rg_log' = <<>>
                 /\ rg_max_retries' = DEFAULT_MAX_RETRIES
                 /\ dt_reconnects' = Counted(dt_reconnects)]_vars

\* A download_thumbnail call whose first reconnect_gee call returned False
\* and whose second returned True, and which has since got another 401
\* answer without reconnecting again.
C19_Witness ==
    /\ dt_reconnects = 2
    /\ dt_reconnect_done
    /\ dt_requests >= 3
    /\ dt_status = HTTP_UNAUTHORIZED
    /\ dt_pc = "get"

\* C20: download_thumbnail makes at least one request before it can return
\* None, whatever the timeout (zero and negative included); the deadline
\* is looked at only in an iteration whose request failed; and a 200
\* answer is returned at once, however long the call has been running.
C20_RequestBeforeDeadline ==
    /\ [](dt_result = "None" => (dt_requests >= 1 /\ LastRequestFailed))
    /\ [][(dt_result' = "None" /\ dt_result # "None") =>
            \/ dt_pc = "get" /\ (dt_exc' \/ dt_status' # HTTP_OK)
            \/ dt_pc = "reconnect" /\ dt_status = HTTP_UNAUTHORIZED]_vars
    /\ [][Answered(HTTP_OK) => (dt_result' = "response" /\ dt_pc' = "returned")]_vars

\* A download_thumbnail call with a timeout of zero or less that returned a
\* 200 response after more than the timeout had elapsed.
C20_Witness ==
    /\ dt_result = "response"
    /\ dt_timeout <= 0
    /\ dt_requests >= 2
    /\ now - dt_start_time > dt_timeout

\* C21: when the main loop of extract_time_series completes, stop_timer is
\* set only then, after the last iteration; the timer thread, which never
\* ends while the main loop is running, makes no further pass and ends;
\* join() returns; and the function returns the rows the loop has built.
C21_TimerStopsAfterLoop ==
    /\ [](ts_pc \in {"while", "locations"} => (tt_pc = "running" /\ ~stop_timer))
    /\ [](ts_pc = "join" => stop_timer)
    /\ [][(stop_timer' /\ ~stop_timer) =>
            (ts_pc = "while" /\ ~InLoop(ts_start, EndDay) /\ ts_pc' = "join")]_vars
    /\ [][(stop_timer /\ tt_pc = "running") =>
            (tt_pc' = "ended" /\ UNCHANGED <<elapsed_time, tt_line>>)]_vars
    /\ [][(ts_pc = "join" \/ ts_pc = "returned") => UNCHANGED <<ts_results>>]_vars
    /\ (ts_pc = "join") ~> (ts_pc = "returned" /\ tt_pc = "ended")

\* An extraction that returned rows after its timer thread had printed at
\* least once and ended.
C21_Witness ==
    /\ ts_pc = "returned"
    /\ tt_pc = "ended"
    /\ tt_line # <<>>
    /\ Len(ts_results) >= 2
    /\ ts_processed >= 2

\* C22: in the menu loop of main, series_extracted implies data_processed,
\* and data_processed implies that the four stored collections are not
\* None; option 1, when it completes, sets data_processed and resets
\* series_extracted; so generate_time_series_plots is started from the menu
\* only with a time series extracted after the latest processing run.
C22_MenuFlagsConsistent ==
    /\ [](m_pc \in {"menu", "stage", "exited", "crashed"} =>
            /\ series_extracted => data_processed
            /\ data_processed => /\ collection # "None"
                                  /\ era5_coll # "None"
                                  /\ image_collection # "None"
                                  /\ era5_collection # "None")
    /\ [][(m_pc = "stage" /\ m_caller = "menu" /\ m_running = "process_satellite_data"
            /\ m_pc' = "menu") => (data_processed' /\ ~series_extracted')]_vars
    /\ []((m_running = "generate_time_series_plots" /\ m_caller = "menu") =>
             (series_extracted /\ h_extracted))

\* Option 1 has completed, no extraction has since, and option 3 was just
\* rejected.
C22_Witness ==
    /\ m_pc = "menu"
    /\ m_choice = "3"
    /\ m_msg = "run_option_2_first"
    /\ data_processed
    /\ ~series_extracted
    /\ collection = "ee"

\* C23: options 5, 6 and 7, invalid input, and options 2, 3 and 4 chosen
\* while their flag is false leave data_processed, series_extracted and the
\* four stored collections as they are, from the choice to the end of what
\* it runs; run_all in particular keeps what it computes to itself, so the
\* flags it finds false stay false, and options 2, 3, 4 keep being rejected
\* on the flags alone.
C23_OptionsLeaveFlags ==
    /\ [][(m_pc = "menu" /\ (m_choice' = "5" \/ m_choice' = "6" \/ m_choice' = "7" \/
                              m_choice' = "8" \/ m_choice' = "x")) =>
            UNCHANGED m_flags]_vars
    /\ [][(m_pc = "stage" /\ (m_caller = "run_all" \/ m_running = "generate_gifs" \/
                               m_running = "merge_gifs_menu")) =>
            UNCHANGED m_flags]_vars
    /\ [][(m_pc = "menu" /\ (m_choice' = "2" \/ m_choice' = "4") /\ ~data_processed) =>
            Rejected("run_option_1_first")]_vars
    /\ [][(m_pc = "menu" /\ m_choice' = "3" /\ ~series_extracted) =>
            Rejected("run_option_2_first")]_vars

\* run_all, chosen before option 1 ever was, has completed its processing,
\* its extraction and the three stages after them, and the flags and
\* collections of main are still unset.
C23_Witness ==
    /\ m_caller = "run_all"
    /\ Len(ra_done) = 5
    /\ h_processed
    /\ h_extracted
    /\ ~data_processed
    /\ ~series_extracted
    /\ collection = "None"

\* C24: the menu loop of main ends only when "0" is entered: whatever else
\* is entered, and however the pipeline function it starts ends, control
\* comes back to the menu, so the process never ends inside a pipeline
\* function; and the final completion message is printed only after "0".
C24_MenuEndsOnlyOnZero ==
    /\ m_pc = "exited" => m_choice = "0"
    /\ m_msg = "completed" => (m_choice = "0" /\ m_pc = "exited")
    /\ m_pc = "crashed" => m_running = "none"

\* The position in `locations` of the location a row was built for.
LocationIndex(row) ==
    CHOOSE k \in 1..Len(ts_locations) : ts_locations[k] = << row.Latitude, row.Longitude >>

\* The columns a row of the running extraction must have besides Date,
\* Latitude and Longitude: every requested band, and "<band>_region" for
\* every band exactly when the dataset is Sentinel-2.
ExpectedColumns ==
    Range(ts_bands) \cup
    (IF ts_dataset = "Sentinel-2" THEN { b \o "_region" : b \in Range(ts_bands) } ELSE {})

\* C25: each pass of the location loop appends one row, for the interval's
\* date and the location, exactly when extract_point_values returned a
\* non-empty dictionary, and otherwise leaves the rows alone; a missing
\* region result gives None in the "_region" cells.  Rows are in order of
\* non-decreasing Date and, within a date, in the order of `locations`; and
\* all rows have the same columns.
C25_RowsMatchExtractions ==
    /\ [][(ts_pc = "locations" /\ ts_loc' = ts_loc + 1) =>
            IF ts_last'.values.kind = "dict"
            THEN /\ Len(ts_results') = Len(ts_results) + 1
                 /\ SubSeq(ts_results', 1, Len(ts_results)) = ts_results
                 /\ LET row == ts_results'[Len(ts_results')]
                    IN  /\ row.Date = ts_start
                        /\ << row.Latitude, row.Longitude >> = ts_locations[ts_loc]
                        /\ \A b \in Range(ts_bands) :
                               /\ row.cells[b] = (IF b \in DOMAIN ts_last'.values.dict
                                                  THEN ts_last'.values.dict[b] ELSE "None")
                               /\ ts_dataset = "Sentinel-2" =>
                                      row.cells[b \o "_region"] =
                                         (IF b \in DOMAIN ts_last'.region_values.dict
                                          THEN ts_last'.region_values.dict[b] ELSE "None")
            ELSE ts_results' = ts_results]_vars
    /\ [][ts_results' # ts_results =>
            (ts_pc = "locations" /\ ts_loc' = ts_loc + 1) \/ ts_results' = <<>>]_vars
    /\ [](\A i, j \in 1..Len(ts_results) :
             i < j => /\ ts_results[i].Date <= ts_results[j].Date
                      /\ ts_results[i].Date = ts_results[j].Date =>
                             LocationIndex(ts_results[i]) < LocationIndex(ts_results[j]))
    /\ [](\A i \in 1..Len(ts_results) :
             /\ DOMAIN ts_results[i].cells = ExpectedColumns
             /\ Len(ts_results[i].keys) = 3 + Cardinality(ExpectedColumns)
             /\ SubSeq(ts_results[i].keys, 1, 3) = << "Date", "Latitude", "Longitude" >>
             /\ Range(ts_results[i].keys) = {"Date", "Latitude", "Longitude"} \cup ExpectedColumns)

\* A Sentinel-2 extraction over two locations that has dropped a location
\* for want of point values, and has built two rows for one date, one of
\* them without region values.
C25_Witness ==
    /\ ts_dataset = "Sentinel-2"
    /\ Len(ts_locations) = 2
    /\ Len(ts_results) = 3
    /\ ts_processed = 2
    /\ ts_results[1].Date = ts_results[2].Date
    /\ \E i \in 1..3 : ts_results[i].cells["NDVI_region"] = "None"
    /\ \E i \in 1..3 : ts_results[i].cells["NDVI_region"] = "v"

\* ------------------------------------------------------------------------
\* create_gif_from_urls
\* ------------------------------------------------------------------------
\* The frames of the pairs among the first k whose download gave a response,
\* in the order of the lists.
RECURSIVE DownloadedFrames(_)
DownloadedFrames(k) ==
    IF k = 0 THEN <<>>
    ELSE IF gif_responses[k] # "None"
         THEN Append(DownloadedFrames(k - 1), Frame(gif_urls[k], gif_dates[k]))
         ELSE DownloadedFrames(k - 1)

\* The URLs among the first k whose download gave None, in the order of the list.
RECURSIVE FailedUrls(_)
FailedUrls(k) ==
    IF k = 0 THEN <<>>
    ELSE IF gif_responses[k] = "None"
         THEN Append(FailedUrls(k - 1), gif_urls[k])
         ELSE FailedUrls(k - 1)

\* The loop of create_gif_from_urls pairs the i-th URL with the i-th date,
\* reports a URL whose download gave None and goes on with the next one,
\* and keeps exactly the downloaded images as frames, in URL order; what it
\* writes is these frames.
C26_FramesAreDownloads ==
    /\ Len(gif_responses) = gif_i
    /\ gif_counter = gif_i
    /\ gif_images = DownloadedFrames(gif_i)
    /\ gif_printed = FailedUrls(gif_i)
    /\ gif_file.exists => (gif_pc = "returned" /\ gif_file.frames = DownloadedFrames(gif_i))
    /\ gif_pc = "returned" => (gif_file.exists /\ gif_i = ZipLen(gif_urls, gif_dates))

\* C26: create_gif_from_urls takes the URLs in list order with the date of
\* the same position, reports and skips a URL whose download_thumbnail
\* returned None without aborting the remaining ones, so that the frames are
\* exactly the downloaded images in URL order, and, also when some or all
\* downloads have failed, the GIF is written and no error is raised.
C26_GifWrittenDespiteFailures ==
    /\ C26_FramesAreDownloads
    /\ gif_printed # <<>> => gif_pc # "raised"

\* Two URLs of which the first failed and the second was downloaded: the
\* GIF holds the second one's frame alone.
C26_SomeFailedWitness ==
    /\ gif_pc = "returned"
    /\ gif_responses = << "None", "Response" >>
    /\ gif_file.frames = << Frame(gif_urls[2], gif_dates[2]) >>

\* ------------------------------------------------------------------------
\* create_colorbar
\* ------------------------------------------------------------------------
Between(x, a, b) == (a <= x /\ x <= b) \/ (b <= x /\ x <= a)

\* The colours of the breakpoints of the ramp of the call.
BreakpointColours == { Rgb(cb_ramp[i][2]) : i \in 1..Len(cb_ramp) }

\* C27: after create_colorbar(width, height, ramp) with height >= 2 and a
\* ramp of at least two breakpoints with strictly increasing integer values
\* and colour channels in 0..255, every pixel row of the gradient has a
\* colour of which each channel lies between the channels of two adjacent
\* breakpoints that enclose the row's value, hence in 0..255; the bottom row
\* has exactly the first breakpoint's colour and the top row exactly the
\* last one's; and interpolate_color gives c1 at t = 0 and c2 at t = 1.
C27_ColorbarGradient ==
    entry = "create_colorbar" =>
        LET h == cb_height
            n == Len(cb_ramp)
            first == cb_ramp[1][1]
            last == cb_ramp[n][1]
        IN  /\ DOMAIN cb_pixels = 0..(cb_width - 1)
            /\ \A col \in 0..(cb_width - 1) :
                  /\ DOMAIN cb_pixels[col] = 0..(h - 1)
                  /\ \A row \in 0..(h - 1) :
                        LET colour == cb_pixels[col][h - 1 - row]
                            \* the row's value, times h - 1
                            value == first * (h - 1) + row * (last - first)
                        IN  /\ \E i \in 1..(n - 1) :
                                  /\ cb_ramp[i][1] * (h - 1) <= value
                                  /\ value <= cb_ramp[i + 1][1] * (h - 1)
                                  /\ \A k \in 1..3 :
                                        Between(colour[k], Rgb(cb_ramp[i][2])[k],
                                                Rgb(cb_ramp[i + 1][2])[k])
                            /\ \A k \in 1..3 : colour[k] \in 0..255
                  /\ cb_pixels[col][h - 1] = Rgb(cb_ramp[1][2])
                  /\ cb_pixels[col][0] = Rgb(cb_ramp[n][2])
            /\ \A c1, c2 \in BreakpointColours :
                  /\ interpolate_color(c1, c2, 0, 1) = c1
                  /\ interpolate_color(c1, c2, 1, 1) = c2

\* A gradient of three rows over three breakpoints at uneven distances,
\* whose middle row lies strictly inside a segment and has a colour of its
\* own, cut down to whole channels.
C27_Witness ==
    /\ entry = "create_colorbar"
    /\ cb_height = 3
    /\ Len(cb_ramp) = 3
    /\ cb_ramp[2][1] - cb_ramp[1][1] # cb_ramp[3][1] - cb_ramp[2][1]
    /\ cb_pixels[0][1] \notin BreakpointColours
    /\ cb_pixels[0][1][1] = 191

====
